---- MODULE Spec2Model ----
(***************************************************************************)
(* Model of Bio.SearchIO.AnarciIO: the parsers of the numbered format and  *)
(* of the hits format (AnarciNumParser, AnarciHitsParser) and their        *)
(* indexers (AnarciNumIndexer, AnarciHitsIndexer).                         *)
(*                                                                         *)
(* A file is a sequence of text lines; a line is a string that ends with   *)
(* its line break, exactly as readline() returns it.  The string           *)
(* operations of the code (strip, split, startswith, slicing, lower,       *)
(* upper, re.search, int, float) are modelled on the characters.           *)
(* The semantics are those of Python 3; where its versions differ (raise   *)
(* StopIteration inside a generator) both outcomes are possible.           *)
(***************************************************************************)
EXTENDS Integers, Sequences, FiniteSets, TLC

(***************************************************************************)
(* Bounds of the model.                                                    *)
(***************************************************************************)
\* records per file
MaxRecords == 2
\* residue rows per record in files of several records
MaxRows == 1
\* residue rows of the record in files of one record
MaxRichRows == 3

(***************************************************************************)
(* Python string operations.                                               *)
(***************************************************************************)
Char(s, i) == SubSeq(s, i, i)

Min(a, b) == IF a < b THEN a ELSE b

\* s[a-1:b] of Python for 1 <= a: the characters a..b, clipped to the string
Slice(s, a, b) == IF a > Min(b, Len(s)) THEN "" ELSE SubSeq(s, a, Min(b, Len(s)))

StartsWith(s, prefix) == Slice(s, 1, Len(prefix)) = prefix

IsSpace(c) == c \in {" ", "\n", "\t", "\r"}

RECURSIVE LStrip(_)
LStrip(s) ==
    IF s = "" THEN ""
    ELSE IF IsSpace(Char(s, 1)) THEN LStrip(Slice(s, 2, Len(s))) ELSE s

RECURSIVE RStrip(_)
RStrip(s) ==
    IF s = "" THEN ""
    ELSE IF IsSpace(Char(s, Len(s))) THEN RStrip(Slice(s, 1, Len(s) - 1)) ELSE s

\* str.strip()
Strip(s) == RStrip(LStrip(s))

\* the places where a run of non-whitespace characters starts, and where such a run ends
TokenStarts(s) ==
    {i \in 1..Len(s) : ~IsSpace(Char(s, i)) /\ (i = 1 \/ IsSpace(Char(s, i - 1)))}
TokenEnds(s) ==
    {i \in 1..Len(s) : ~IsSpace(Char(s, i)) /\ (i = Len(s) \/ IsSpace(Char(s, i + 1)))}

\* the k-th smallest element of a set of numbers
Nth(S, k) == CHOOSE i \in S : Cardinality({j \in S : j < i}) = k - 1

\* str.split(): the runs of non-whitespace characters
Split(s) ==
    [k \in 1..Cardinality(TokenStarts(s)) |->
        SubSeq(s, Nth(TokenStarts(s), k), Nth(TokenEnds(s), k))]

\* str.split(sep) for a one-character separator: the fields between the separators,
\* empty fields included
SplitOn(s, sep) ==
    LET seps == {i \in 1..Len(s) : Char(s, i) = sep}
        cut(k) == IF k = 0 THEN 0
                  ELSE IF k > Cardinality(seps) THEN Len(s) + 1
                  ELSE Nth(seps, k)
    IN  [k \in 1..(Cardinality(seps) + 1) |-> Slice(s, cut(k - 1) + 1, cut(k) - 1)]

RECURSIVE Join(_, _)
\* sep.join(toks)
Join(sep, toks) ==
    IF toks = <<>> THEN ""
    ELSE IF Len(toks) = 1 THEN toks[1]
    ELSE toks[1] \o sep \o Join(sep, Tail(toks))

LowerLetters == "abcdefghijklmnopqrstuvwxyz"
UpperLetters == "ABCDEFGHIJKLMNOPQRSTUVWXYZ"
DigitChars == "0123456789"

CharsOf(s) == {Char(s, i) : i \in 1..Len(s)}

IndexIn(s, c) == CHOOSE i \in 1..Len(s) : Char(s, i) = c

LowerChar(c) ==
    IF c \in CharsOf(UpperLetters) THEN Char(LowerLetters, IndexIn(UpperLetters, c)) ELSE c

UpperChar(c) ==
    IF c \in CharsOf(LowerLetters) THEN Char(UpperLetters, IndexIn(LowerLetters, c)) ELSE c

RECURSIVE Lower(_)
\* str.lower()
Lower(s) == IF s = "" THEN "" ELSE LowerChar(Char(s, 1)) \o Lower(Slice(s, 2, Len(s)))

RECURSIVE Upper(_)
\* str.upper()
Upper(s) == IF s = "" THEN "" ELSE UpperChar(Char(s, 1)) \o Upper(Slice(s, 2, Len(s)))

IsDigits(s) == s /= "" /\ \A i \in 1..Len(s) : Char(s, i) \in CharsOf(DigitChars)

RECURSIVE IntOf(_)
\* int(s) of a string of decimal digits
IntOf(s) ==
    IF s = "" THEN 0
    ELSE 10 * IntOf(Slice(s, 1, Len(s) - 1)) + (IndexIn(DigitChars, Char(s, Len(s))) - 1)

\* float(s): the value as mantissa * 10^exp, for the numerals of the line catalog
FloatTable ==
    ("1.5e-53" :> [mant |-> 15, exp |-> -54]) @@
    ("171.1" :> [mant |-> 1711, exp |-> -1]) @@
    ("2e-10" :> [mant |-> 2, exp |-> -10]) @@
    ("50.0" :> [mant |-> 5, exp |-> 1])

IsFloat(s) == s \in DOMAIN FloatTable

FloatOf(s) == FloatTable[s]

(***************************************************************************)
(* Regular expressions: a pattern is a sequence of items, each a character *)
(* class with or without "+"; re.search looks for a match at any start.    *)
(***************************************************************************)
InClass(cls, c) ==
    CASE cls = "bar" -> c = "|"
      [] cls = "point" -> c = "."
      [] cls = "w" -> c \in CharsOf(LowerLetters) \cup CharsOf(UpperLetters)
                            \cup CharsOf(DigitChars) \cup {"_"}
      [] cls = "d" -> c \in CharsOf(DigitChars)
      [] cls = "any" -> c /= "\n"

Bar == [cls |-> "bar", plus |-> FALSE]
Point == [cls |-> "point", plus |-> FALSE]
W1 == [cls |-> "w", plus |-> FALSE]
Ws == [cls |-> "w", plus |-> TRUE]
D1 == [cls |-> "d", plus |-> FALSE]
Ds == [cls |-> "d", plus |-> TRUE]
Anys == [cls |-> "any", plus |-> TRUE]

\* r'\|\w+\|\w\|.+\|.+\|\d+\|\d+\|'
RE_STATS == <<Bar, Ws, Bar, W1, Bar, Anys, Bar, Anys, Bar, Ds, Bar, Ds, Bar>>

\* r'\|\w+\|.+\|\d\.\d+\|.+\|\d\.\d+\|'
RE_GERMLINE_STATS ==
    <<Bar, Ws, Bar, Anys, Bar, D1, Point, Ds, Bar, Anys, Bar, D1, Point, Ds, Bar>>

\* the positions after a match of one item that starts at a position of starts
AfterItem(item, starts, s) ==
    {j + 1 : j \in {j \in 1..Len(s) :
                        \E i \in starts :
                            /\ i <= j
                            /\ item.plus \/ j = i
                            /\ \A m \in i..j : InClass(item.cls, Char(s, m))}}

RECURSIVE AfterItems(_, _, _, _)
\* the positions after a match of the items k.. of the pattern
AfterItems(re, k, starts, s) ==
    IF k > Len(re) \/ starts = {} THEN starts
    ELSE AfterItems(re, k + 1, AfterItem(re[k], starts, s), s)

\* re.search(re, s) is not None
Search(re, s) == AfterItems(re, 1, 1..Len(s), s) /= {}

(***************************************************************************)
(* The lines of the input files.                                           *)
(***************************************************************************)
\* the header line of the k-th record of a file
HeaderLines == <<"# Q1 d1\n", "# Q2\n", "# Q3 d3 x\n", "# Q4 d4\n">>
HDR_INPUT == "# Input sequence\n"
COLS == "#|species|chain_type|e-value|score|seqstart_index|seqend_index|\n"
STATS_A == "#|mouse|H|1.5e-53|171.1|2|4|\n"
STATS_B == "#|human|K|2e-10|50.0|0|3|\n"
GERM_COLS == "#|species|v_gene|v_identity|j_gene|j_identity|\n"
GERM == "#|human|IGKV1-5*01|0.95|IGKJ1*01|0.93|\n"
SCHEME_A == "# Scheme = kabat\n"
SCHEME_B == "# Scheme = imgt\n"
DOMAIN_2 == "# Domain 2 of 2\n"
TERM == "//\n"
\* a line that starts as the terminator line does
SLASH_LINE == "//end\n"
BLANK == "\n"

\* the numbering label and the residue letter of the i-th residue row of a record
RowNumbers == <<"1", "2", "3", "4", "5", "6">>
RowLetters == <<"Q", "v", "K", "L", "E", "S">>

RowKinds == {"res", "gap", "ins", "insgap"}
PlainRowKinds == {"res", "gap"}

\* a residue row as ANARCI prints it: chain, number, insertion code (or a space), residue
RowLine(kind, i) ==
    CASE kind = "res" -> "H " \o RowNumbers[i] \o "       " \o RowLetters[i] \o "\n"
      [] kind = "gap" -> "H " \o RowNumbers[i] \o "       -\n"
      [] kind = "ins" -> "H " \o RowNumbers[i] \o "     A " \o RowLetters[i] \o "\n"
      [] kind = "insgap" -> "H " \o RowNumbers[i] \o "     A -\n"

\* the lines of the hits format
SIGNATURE == "# Hit file for ANARCI\n"
\* the signature as the last line of a file that does not end with a line break
SIGNATURE_BARE == "# Hit file for ANARCI"
NameLines == <<"NAME Q1 d1\n", "NAME Q2\n", "NAME Q3 d3 x\n", "NAME Q4 d4\n">>
SEQ_LINE == "SEQUENCE QVKLE\n"
SEQ_LINE_2 == "SEQUENCE SGG\n"
TABLE_HEADER == "         id description evalue bitscore bias start end\n"
HIT_ROW_A == "human_H 1.5e-53 171.1 0.1 0 3\n"
HIT_ROW_B == "mouse_K 2e-10 50.0 0.1 2 4\n"

Catalog ==
    {HeaderLines[k] : k \in DOMAIN HeaderLines}
        \cup {HDR_INPUT, COLS, STATS_A, STATS_B, GERM_COLS, GERM, SCHEME_A, SCHEME_B,
              DOMAIN_2, TERM, SLASH_LINE, BLANK}
        \cup {RowLine(kind, i) : kind \in RowKinds, i \in DOMAIN RowNumbers}
        \cup {NameLines[k] : k \in DOMAIN NameLines}
        \cup {SIGNATURE, SIGNATURE_BARE, SEQ_LINE, SEQ_LINE_2, TABLE_HEADER,
              HIT_ROW_A, HIT_ROW_B}

\* what the code computes from the text of a line, computed once per line of the catalog
LineInfo ==
    [l \in Catalog |->
        [strip |-> Strip(l),
         split |-> Split(l),
         bars |-> SplitOn(l, "|"),
         re_stats |-> Search(RE_STATS, l),
         re_germline |-> Search(RE_GERMLINE_STATS, l)]]

(***************************************************************************)
(* The input files.                                                        *)
(***************************************************************************)
RECURSIVE SeqsUpTo(_, _)
\* the sequences over S of length at most n
SeqsUpTo(S, n) ==
    IF n = 0 THEN {<<>>}
    ELSE LET shorter == SeqsUpTo(S, n - 1)
         IN shorter \cup {Append(q, x) : q \in shorter, x \in S}

RowsOf(kinds) == [i \in DOMAIN kinds |-> RowLine(kinds[i], i)]

META_A == <<COLS, STATS_A, SCHEME_A>>
META_B == <<STATS_B, GERM_COLS, GERM, SCHEME_B>>

\* the record at position k of a file of several records
Records(k) ==
    {<<HeaderLines[k], TERM>>, <<HDR_INPUT, TERM>>, <<HeaderLines[k], RowLine("res", 1), TERM>>}
        \cup {<<HeaderLines[k]>> \o meta \o RowsOf(kinds) \o <<TERM>> :
                meta \in {META_A, META_B}, kinds \in SeqsUpTo(PlainRowKinds, MaxRows)}

\* the record of a file of one record: rows with insertion codes, and a second domain
RichRecords ==
    {<<HeaderLines[1]>> \o meta \o RowsOf(kinds) \o tail \o <<TERM>> :
        meta \in {META_A, META_B},
        kinds \in SeqsUpTo(RowKinds, MaxRichRows),
        tail \in {<<>>, <<DOMAIN_2>>, <<DOMAIN_2, STATS_B, RowLine("res", Len(RowNumbers))>>}}

RECURSIVE FilesFrom(_, _)
\* the files of n records whose first record is the k-th of the file
FilesFrom(k, n) ==
    IF n = 0 THEN {<<>>}
    ELSE {r \o rest : r \in Records(k), rest \in FilesFrom(k + 1, n - 1)}

NumFiles ==
    {<<>>} \cup RichRecords \cup UNION {FilesFrom(1, n) : n \in 1..MaxRecords}

HitsRecords(k) ==
    {<<NameLines[k]>> \o seqs \o <<TABLE_HEADER>> \o rows \o <<TERM>> :
        seqs \in {<<SEQ_LINE>>, <<SEQ_LINE, SEQ_LINE_2>>},
        rows \in {<<>>, <<HIT_ROW_A>>, <<HIT_ROW_A, HIT_ROW_B>>}}

RECURSIVE HitsFilesFrom(_, _)
HitsFilesFrom(k, n) ==
    IF n = 0 THEN {<<>>}
    ELSE {r \o rest : r \in HitsRecords(k), rest \in HitsFilesFrom(k + 1, n - 1)}

HitsFiles ==
    {<<>>} \cup UNION {{<<SIGNATURE>> \o f : f \in HitsFilesFrom(1, n)} : n \in 1..MaxRecords}

\* a line with its line feed replaced by carriage return and line feed
CRLF(l) == Slice(l, 1, Len(l) - 1) \o "\r\n"

\* a hits file of one record whose lines end with carriage return and line feed
HitsFileCRLF ==
    LET f == <<SIGNATURE, NameLines[1], SEQ_LINE, TABLE_HEADER, HIT_ROW_A, TERM>>
    IN  [i \in DOMAIN f |-> CRLF(f[i])]

\* a numbered-format record with a hit, and a file of it and a record without a hit
NumRecordA == <<HeaderLines[1]>> \o META_A \o <<RowLine("res", 1), TERM>>
NumBase == NumRecordA \o <<HeaderLines[2], TERM>>

\* a hits file of a record with a hit and a record without one
HitsBase ==
    <<SIGNATURE, NameLines[1], SEQ_LINE, TABLE_HEADER, HIT_ROW_A, TERM,
      NameLines[2], SEQ_LINE, TABLE_HEADER, TERM>>

\* files with one blank line, at any place
BlankLineFiles ==
    LET WithBlankAt(f, i) == SubSeq(f, 1, i - 1) \o <<BLANK>> \o SubSeq(f, i, Len(f))
    IN  UNION {{WithBlankAt(f, i) : i \in 1..(Len(f) + 1)} : f \in {NumBase, HitsBase}}

\* files in which a line that starts with '//' and goes on with other characters stands
\* before the terminator line of the first record
SlashFiles ==
    {<<HeaderLines[1]>> \o META_A \o <<RowLine("res", 1), SLASH_LINE, RowLine("res", 2), TERM>>,
     <<SIGNATURE, NameLines[1], SEQ_LINE, TABLE_HEADER, HIT_ROW_A, SLASH_LINE, TERM>>}

\* numbered-format files whose last record has no terminator line
UnterminatedFiles ==
    {prefix \o tail :
        prefix \in {<<>>, NumRecordA},
        tail \in {<<HeaderLines[2]>>, <<HeaderLines[2]>> \o META_A \o <<RowLine("res", 1)>>}}

\* numbered-format files whose last record has no header line
HeaderlessFiles ==
    {prefix \o rec :
        prefix \in {<<>>, NumRecordA},
        rec \in {<<RowLine("res", 1), TERM>>, <<TERM>>}}

\* the files a caller can hand to a parser or an indexer of either format; the last
\* set is the hits files of one record without the signature line
Files ==
    NumFiles \cup HitsFiles \cup {<<SIGNATURE_BARE>>, HitsFileCRLF}
        \cup BlankLineFiles \cup UnterminatedFiles \cup HeaderlessFiles
        \cup SlashFiles \cup HitsFilesFrom(1, 1)

\* the lines of the file as a handle opened in text mode returns them: a line break
\* of carriage return and line feed is read as a line feed
TextHandle(f) ==
    [i \in DOMAIN f |->
        IF Len(f[i]) >= 2 /\ Slice(f[i], Len(f[i]) - 1, Len(f[i])) = "\r\n"
        THEN Slice(f[i], 1, Len(f[i]) - 2) \o "\n" ELSE f[i]]

(***************************************************************************)
(* AnarciNumParser._parse_qresult.                                         *)
(*                                                                         *)
(* loc is the frame of the generator: its local variables, and in          *)
(* loc.bound the names of the locals that have been assigned.  Reading a   *)
(* local that was never assigned raises UnboundLocalError.                 *)
(***************************************************************************)
STATE_HEADER == 0
STATE_ANNOTATION == 1

NoFloat == [mant |-> 0, exp |-> 0]

\* the frame when the generator starts (lines 46-51)
NumLocals ==
    [state |-> STATE_HEADER, sequence |-> "", annotation |-> <<>>, feature_lst |-> <<>>,
     assign_germline |-> FALSE, residue_counter |-> 0, bound |-> {},
     query_id |-> "", query_description |-> "", scheme |-> "",
     species |-> "", chain_type |-> "", evalue |-> NoFloat, score |-> NoFloat,
     seqstart_index |-> 0, seqend_index |-> 0, hit_id |-> "",
     species_germline |-> "", v_gene |-> "", v_identity |-> "", j_gene |-> "",
     j_identity |-> ""]

\* the result of one pass of the loop body: the frame, the record yielded, the error raised
Continue(loc) == [loc |-> loc, out |-> <<>>, err |-> ""]
Yield(loc, qresult) == [loc |-> loc, out |-> <<qresult>>, err |-> ""]
Raise(loc, e) == [loc |-> loc, out |-> <<>>, err |-> e]

NoAttrs == [n \in {} |-> ""]

\* QueryResult(hits=..., id=...): without an id the record takes its first hit's query_id
QueryResult(hits, id) ==
    [id |-> IF id = <<>> THEN (IF hits = <<>> THEN "<unknown id>" ELSE hits[1].query_id)
                         ELSE id[1],
     description |-> "<unknown description>",
     program |-> "<unknown program>", version |-> "<unknown version>",
     target |-> "<unknown target>",
     hits |-> hits, attrs |-> NoAttrs]

\* the Summary feature of type 'ANARCI_hit' (lines 66-71)
SummaryFeature(loc) ==
    [location |-> <<loc.seqstart_index, loc.residue_counter>>,
     type |-> "ANARCI_hit",
     qualifiers |-> [sequence |-> loc.sequence, evalue |-> loc.evalue,
                     bitscore |-> loc.score, chain_type |-> loc.chain_type,
                     species |-> loc.species]]

\* the HSPFragment with the Summary feature not appended to the feature list
NumFragment_WithoutSummary(loc) ==
    [query |-> [seq |-> loc.sequence,
                features |-> loc.feature_lst,
                letter_annotations |-> (loc.scheme :> loc.annotation)],
     hit_id |-> loc.hit_id, query_id |-> loc.query_id, alphabet |-> "generic_protein",
     query_start |-> loc.seqstart_index,
     query_end |-> loc.residue_counter,
     hit_start |-> 0, hit_end |-> 0]

\* the HSPFragment of a record with a sequence (lines 61-74)
NumFragment(loc) ==
    [query |-> [seq |-> loc.sequence,
                features |-> Append(loc.feature_lst, SummaryFeature(loc)),
                letter_annotations |-> (loc.scheme :> loc.annotation)],
     hit_id |-> loc.hit_id, query_id |-> loc.query_id, alphabet |-> "generic_protein",
     query_start |-> loc.seqstart_index,
     query_end |-> loc.residue_counter,
     hit_start |-> 0, hit_end |-> 0]

\* the HSP made of the fragment taken twice
NumHSP_WithTwoFragments(loc) ==
    LET frag == NumFragment(loc)
    IN [fragments |-> <<frag, frag>>, hit_id |-> frag.hit_id, query_id |-> frag.query_id,
        evalue |-> loc.evalue, bitscore |-> loc.score]

\* HSP([frag]) with its statistics (lines 76-78); an HSP takes its ids from its fragment
NumHSP(loc) ==
    LET frag == NumFragment(loc)
    IN [fragments |-> <<frag>>, hit_id |-> frag.hit_id, query_id |-> frag.query_id,
        evalue |-> loc.evalue, bitscore |-> loc.score]

\* the Hit made without its query_id argument
NumHit_WithoutQueryId(loc) ==
    [hsps |-> <<NumHSP(loc)>>, id |-> loc.hit_id, query_id |-> "<unknown id>",
     description |-> ""]

\* Hit(hsps=[hsp], id=hit_id, query_id=query_id) (lines 80-81)
NumHit(loc) ==
    [hsps |-> <<NumHSP(loc)>>, id |-> loc.hit_id, query_id |-> loc.query_id,
     description |-> ""]

\* the germline attributes with the last setattr left out
GermlineAttrs_WithoutJIdentity(loc) ==
    IF loc.assign_germline
    THEN [species_germline |-> loc.species_germline, v_gene |-> loc.v_gene,
          v_identity |-> loc.v_identity, j_gene |-> loc.j_gene]
    ELSE NoAttrs

\* the germline attributes set on the record (lines 92-97)
GermlineAttrs(loc) ==
    IF loc.assign_germline
    THEN [species_germline |-> loc.species_germline, v_gene |-> loc.v_gene,
          v_identity |-> loc.v_identity, j_gene |-> loc.j_gene,
          j_identity |-> loc.j_identity]
    ELSE NoAttrs

\* the QueryResult of a record with a sequence (lines 83-97)
NumQResultWithHit(loc) ==
    [QueryResult(<<NumHit(loc)>>, <<>>) EXCEPT
        !.program = "ANARCI", !.version = "1.3", !.target = "NCBI protein database",
        !.description = loc.query_description,
        !.attrs = [scheme |-> loc.scheme, chain_type |-> loc.chain_type,
                   species |-> loc.species] @@ GermlineAttrs(loc)]

\* the QueryResult of a record without a sequence (lines 99-103)
NumQResultNoHit(loc) ==
    [QueryResult(<<>>, <<loc.query_id>>) EXCEPT
        !.program = "ANARCI", !.version = "1.3", !.target = "NCBI protein database",
        !.description = loc.query_description]

\* the reset that keeps the residue counter
NumReset_WithoutResidueCounter(loc) ==
    [loc EXCEPT !.sequence = "", !.annotation = <<>>, !.feature_lst = <<>>,
                !.state = STATE_HEADER]

\* the reset after the yield (lines 107-111)
NumReset(loc) ==
    [loc EXCEPT !.sequence = "", !.annotation = <<>>, !.feature_lst = <<>>,
                !.residue_counter = 0, !.state = STATE_HEADER]

\* the locals read when a record with a sequence is built
HitNames ==
    {"hit_id", "query_id", "seqstart_index", "evalue", "score", "chain_type", "species",
     "scheme", "query_description"}
GermlineNames == {"species_germline", "v_gene", "v_identity", "j_gene", "j_identity"}

\* the terminator with no record yielded when no residue was accumulated
NumTerminator_WithoutNoHitYield(loc) ==
    IF loc.sequence /= ""
    THEN IF ~(HitNames \subseteq loc.bound)
              \/ (loc.assign_germline /\ ~(GermlineNames \subseteq loc.bound))
         THEN Raise(loc, "UnboundLocalError")
         ELSE Yield(NumReset(loc), NumQResultWithHit(loc))
    ELSE Continue(NumReset(loc))

\* a line that starts with '//' (lines 57-111)
NumTerminator(loc) ==
    IF loc.sequence /= ""
    THEN IF ~(HitNames \subseteq loc.bound)
              \/ (loc.assign_germline /\ ~(GermlineNames \subseteq loc.bound))
         THEN Raise(loc, "UnboundLocalError")
         ELSE Yield(NumReset(loc), NumQResultWithHit(loc))
    ELSE IF ~({"query_id", "query_description"} \subseteq loc.bound)
         THEN Raise(loc, "UnboundLocalError")
         ELSE Yield(NumReset(loc), NumQResultNoHit(loc))

\* a line that starts with '#' (lines 114-147)
NumComment(loc, line) ==
    LET toks == LineInfo[line].split
        bars == LineInfo[line].bars
    IN  IF loc.state = STATE_HEADER
        THEN IF SubSeq(toks, 2, Min(3, Len(toks))) = <<"Input", "sequence">>
             THEN Continue([loc EXCEPT !.query_id = "<unknown id>",
                                       !.query_description = "",
                                       !.bound = @ \cup {"query_id", "query_description"},
                                       !.state = STATE_ANNOTATION])
             ELSE IF Len(toks) < 2 THEN Raise(loc, "IndexError")
             ELSE Continue([loc EXCEPT !.query_id = toks[2],
                                       !.query_description =
                                            Join(" ", SubSeq(toks, 3, Len(toks))),
                                       !.bound = @ \cup {"query_id", "query_description"},
                                       !.state = STATE_ANNOTATION])
        ELSE IF StartsWith(line, "# Scheme = ")
        THEN Continue([loc EXCEPT !.scheme = toks[Len(toks)],
                                  !.bound = @ \cup {"scheme"}])
        ELSE IF LineInfo[line].re_stats
        THEN IF Len(bars) < 7 THEN Raise(loc, "IndexError")
             ELSE IF ~IsFloat(bars[4]) \/ ~IsFloat(bars[5])
                     \/ ~IsDigits(bars[6]) \/ ~IsDigits(bars[7])
             THEN Raise(loc, "ValueError")
             ELSE Continue([loc EXCEPT !.species = bars[2],
                                       !.chain_type = bars[3],
                                       !.evalue = FloatOf(bars[4]),
                                       !.score = FloatOf(bars[5]),
                                       !.seqstart_index = IntOf(bars[6]),
                                       !.seqend_index = IntOf(bars[7]),
                                       !.hit_id = bars[2] \o "_" \o bars[3],
                                       !.bound = @ \cup {"species", "chain_type", "evalue",
                                                         "score", "seqstart_index",
                                                         "seqend_index", "hit_id"}])
        ELSE IF LineInfo[line].re_germline
        THEN IF Len(bars) < 6 THEN Raise(loc, "IndexError")
             ELSE Continue([loc EXCEPT !.assign_germline = TRUE,
                                       !.species_germline = bars[2],
                                       !.v_gene = bars[3],
                                       !.v_identity = bars[4],
                                       !.j_gene = bars[5],
                                       !.j_identity = bars[6],
                                       !.bound = @ \cup GermlineNames])
        ELSE Continue(loc)

\* the SeqFeature of one residue (lines 162-166)
ResidueFeature(loc, residue, annot) ==
    [location |-> <<loc.seqstart_index + loc.residue_counter,
                    loc.seqstart_index + loc.residue_counter + 1>>,
     type |-> loc.scheme,
     qualifiers |-> ("residue" :> residue) @@ ("label" :> residue \o annot)
                        @@ (("ANARCI_" \o loc.scheme \o "_num") :> annot)]

\* the test that a residue row is not a gap row (line 151)
NotGap(toks) == toks[3] /= "-"

\* any other line: a residue row (lines 150-169)
NumResidueRow(loc, line) ==
    LET toks == LineInfo[line].split
    IN  IF Len(toks) < 3 THEN Raise(loc, "IndexError")
        ELSE IF NotGap(toks)
        THEN LET annot == IF Len(toks) = 4 THEN toks[2] \o Lower(toks[3]) ELSE toks[2]
                 residue == Upper(toks[Len(toks)])
             IN  IF ~({"seqstart_index", "scheme"} \subseteq loc.bound)
                 THEN Raise(loc, "UnboundLocalError")
                 ELSE Continue([loc EXCEPT
                        !.sequence = @ \o residue,
                        !.annotation = Append(@, annot),
                        !.feature_lst = Append(@, ResidueFeature(loc, residue, annot)),
                        !.residue_counter = @ + 1,
                        !.state = STATE_ANNOTATION])
        ELSE Continue(loc)

\* the loop body that passes over a blank line
NumParseLine_SkippingBlankLines(loc, line) ==
    IF LineInfo[line].strip = "" THEN Continue(loc)
    ELSE IF Slice(line, 1, 2) = "//" THEN NumTerminator(loc)
    ELSE IF Char(line, 1) = "#" THEN NumComment(loc, line)
    ELSE NumResidueRow(loc, line)

\* one pass of the body of "for line in self.handle" (lines 55-169)
NumParseLine(loc, line) ==
    IF LineInfo[line].strip = "" THEN Raise(loc, "AssertionError")
    ELSE IF Slice(line, 1, 2) = "//" THEN NumTerminator(loc)
    ELSE IF Char(line, 1) = "#" THEN NumComment(loc, line)
    ELSE NumResidueRow(loc, line)

(***************************************************************************)
(* The parser object and its generator.  pc is "new" after __init__,       *)
(* "running" while the generator is suspended at a yield, "done" when it   *)
(* has ended and "err" when an exception has left it.                      *)
(***************************************************************************)
HITS_PREFIX == "# Hit file for ANARCI"

\* handle.readline() of a text handle at line number pos
ReadLineAt(handle, pos) == IF pos > Len(handle) THEN "" ELSE handle[pos]

\* AnarciNumParser.__init__ (lines 24-27)
NumParserNew(handle) ==
    LET line == ReadLineAt(handle, 1)
    IN  [pc |-> IF StartsWith(line, HITS_PREFIX) THEN "err" ELSE "new",
         err |-> IF StartsWith(line, HITS_PREFIX) THEN "AssertionError" ELSE "",
         handle |-> handle, line |-> line, pos |-> Min(2, Len(handle) + 1),
         loc |-> NumLocals, out |-> <<>>]

RECURSIVE NumRun_ReadingAhead(_, _, _)
\* the loop that parses the line after a terminator before it yields the record
NumRun_ReadingAhead(psr, pos, loc) ==
    IF pos > Len(psr.handle)
    THEN [psr EXCEPT !.pc = "done", !.pos = pos, !.loc = loc, !.out = <<>>]
    ELSE LET r == NumParseLine(loc, psr.handle[pos])
             ahead == IF pos < Len(psr.handle) THEN NumParseLine(r.loc, psr.handle[pos + 1])
                      ELSE Continue(r.loc)
         IN  IF r.err /= ""
             THEN [psr EXCEPT !.pc = "err", !.err = r.err, !.pos = pos + 1, !.loc = r.loc,
                              !.out = <<>>]
             ELSE IF r.out /= <<>> /\ ahead.err /= ""
             THEN [psr EXCEPT !.pc = "err", !.err = ahead.err, !.pos = pos + 2,
                              !.loc = r.loc, !.out = <<>>]
             ELSE IF r.out /= <<>>
             THEN [psr EXCEPT !.pc = "running", !.pos = pos + 1, !.loc = r.loc,
                              !.out = r.out]
             ELSE NumRun_ReadingAhead(psr, pos + 1, r.loc)

RECURSIVE NumRun(_, _, _)
\* the loop of _parse_qresult from line number pos until it yields, ends or raises
NumRun(psr, pos, loc) ==
    IF pos > Len(psr.handle)
    THEN [psr EXCEPT !.pc = "done", !.pos = pos, !.loc = loc, !.out = <<>>]
    ELSE LET r == NumParseLine(loc, psr.handle[pos])
         IN  IF r.err /= ""
             THEN [psr EXCEPT !.pc = "err", !.err = r.err, !.pos = pos + 1, !.loc = r.loc,
                              !.out = <<>>]
             ELSE IF r.out /= <<>>
             THEN [psr EXCEPT !.pc = "running", !.pos = pos + 1, !.loc = r.loc,
                              !.out = r.out]
             ELSE NumRun(psr, pos + 1, r.loc)

\* "raise StopIteration" inside a generator ends it silently before Python 3.7 and
\* raises RuntimeError from Python 3.7 on
StopIterationRaised(obj) ==
    {[obj EXCEPT !.pc = "done", !.out = <<>>],
     [obj EXCEPT !.pc = "err", !.err = "RuntimeError", !.out = <<>>]}

\* the iteration that starts to read where the handle stands
NumParserNext_WithoutSeek(psr) ==
    IF psr.pc = "new"
    THEN IF psr.line = "" THEN StopIterationRaised(psr)
         ELSE {NumRun(psr, psr.pos, NumLocals)}
    ELSE {NumRun(psr, psr.pos, psr.loc)}

\* next() of iter(parser): __iter__ (lines 29-35) around _parse_qresult (lines 37-169),
\* whose first step is handle.seek(0) (line 53)
NumParserNext(psr) ==
    IF psr.pc = "new"
    THEN IF psr.line = "" THEN StopIterationRaised(psr)
         ELSE {NumRun(psr, 1, NumLocals)}
    ELSE {NumRun(psr, psr.pos, psr.loc)}

(***************************************************************************)
(* AnarciHitsParser (anarci_hits.py).  loc is the frame of the generator   *)
(* _parse_qresult; loc.qresult holds the QueryResult last assigned to the  *)
(* local qresult, as a sequence of at most one element.                    *)
(***************************************************************************)
\* the frame when the generator starts (anarci_hits.py lines 44-47)
HitsLocals ==
    [state |-> STATE_HEADER, sequence |-> "", hit_id |-> "", hit_lst |-> <<>>,
     bound |-> {}, query_id |-> "", query_description |-> "", qresult |-> <<>>]

\* the extraction that returns the whole input sequence
extract_sequence_WithoutSlice(sequence, start, end) == sequence

\* _extract_sequence(sequence, start, end): sequence[start:end] (lines 34-36)
extract_sequence(sequence, start, end) == Slice(sequence, start + 1, end)

\* the HSPFragment of a statistics row (lines 95-101)
HitsFragment(loc, toks) ==
    [query |-> [seq |-> extract_sequence(loc.sequence, IntOf(toks[5]), IntOf(toks[6])),
                description |-> loc.query_description],
     hit_id |-> toks[1], query_id |-> loc.query_id, alphabet |-> "generic_protein",
     query_start |-> IntOf(toks[5]),
     query_end |-> IntOf(toks[6]),
     hit_start |-> 0, hit_end |-> 0]

\* HSP([frag]) with its statistics (lines 103-105)
HitsHSP(loc, toks) ==
    LET frag == HitsFragment(loc, toks)
    IN [fragments |-> <<frag>>, hit_id |-> frag.hit_id, query_id |-> frag.query_id,
        evalue |-> FloatOf(toks[2]), bitscore |-> FloatOf(toks[3])]

\* Hit(hsps=[hsp], id=hit_id, query_id=query_id) (lines 107-109)
HitsHit(loc, toks) ==
    [hsps |-> <<HitsHSP(loc, toks)>>, id |-> toks[1], query_id |-> loc.query_id,
     description |-> "", query_description |-> loc.query_description]

\* the QueryResult with chain_type and species taken from its first hit
HitsQResultWithHits_FromFirstRow(loc, hit_lst, toks) ==
    [QueryResult(hit_lst, <<>>) EXCEPT
        !.program = "Anarci", !.version = "1.3", !.target = "NCBI protein database",
        !.description = loc.query_description,
        !.attrs = [chain_type |-> SplitOn(hit_lst[1].id, "_")[2],
                   species |-> SplitOn(hit_lst[1].id, "_")[1],
                   input_sequence |-> loc.sequence]]

\* the QueryResult built at a statistics row from the hits so far (lines 112-119)
HitsQResultWithHits(loc, hit_lst, toks) ==
    [QueryResult(hit_lst, <<>>) EXCEPT
        !.program = "Anarci", !.version = "1.3", !.target = "NCBI protein database",
        !.description = loc.query_description,
        !.attrs = [chain_type |-> SplitOn(toks[1], "_")[2],
                   species |-> SplitOn(toks[1], "_")[1],
                   input_sequence |-> loc.sequence]]

\* the QueryResult of a record without a statistics row (lines 59-63)
HitsQResultNoHit(loc) ==
    [QueryResult(<<>>, <<loc.query_id>>) EXCEPT
        !.program = "ANARCI", !.version = "1.3", !.target = "NCBI protein database",
        !.description = loc.query_description]

\* the reset after the yield with the hit list kept
HitsReset_WithoutHitList(loc) ==
    [loc EXCEPT !.sequence = "", !.hit_id = "", !.state = STATE_HEADER]

\* the reset after the yield with the sequence kept
HitsReset_WithoutSequence(loc) ==
    [loc EXCEPT !.hit_lst = <<>>, !.hit_id = "", !.state = STATE_HEADER]

\* the reset after the yield (lines 67-70)
HitsReset(loc) ==
    [loc EXCEPT !.hit_lst = <<>>, !.sequence = "", !.hit_id = "", !.state = STATE_HEADER]

\* a line that starts with '//' (lines 55-70)
HitsTerminator(loc) ==
    IF loc.hit_id /= ""
    THEN Yield(HitsReset(loc), loc.qresult[1])
    ELSE IF ~({"query_id", "query_description"} \subseteq loc.bound)
         THEN Raise(loc, "UnboundLocalError")
         ELSE Yield(HitsReset([loc EXCEPT !.qresult = <<HitsQResultNoHit(loc)>>]),
                    HitsQResultNoHit(loc))

\* a line read in the header state (lines 72-84)
HitsHeaderLine(loc, line) ==
    LET toks == LineInfo[line].split
    IN  IF StartsWith(line, "NAME")
        THEN IF Len(toks) < 2 THEN Raise(loc, "IndexError")
             ELSE Continue([loc EXCEPT !.query_id = toks[2],
                                       !.query_description =
                                            Join(" ", SubSeq(toks, 3, Len(toks))),
                                       !.bound = @ \cup {"query_id", "query_description"}])
        ELSE IF StartsWith(line, "SEQUENCE")
        THEN Continue([loc EXCEPT !.sequence = @ \o toks[Len(toks)]])
        ELSE IF StartsWith(line, "         id description")
        THEN Continue([loc EXCEPT !.state = STATE_ANNOTATION])
        ELSE Continue(loc)

\* a line read past the table header: a statistics row (lines 85-119)
HitsStatsRow(loc, line) ==
    LET toks == LineInfo[line].split
        hit_lst == Append(loc.hit_lst, HitsHit(loc, toks))
    IN  IF Len(SplitOn(toks[1], "_")) /= 2 THEN Raise(loc, "ValueError")
        ELSE IF Len(toks) < 2 THEN Raise(loc, "IndexError")
        ELSE IF ~IsFloat(toks[2]) THEN Raise(loc, "ValueError")
        ELSE IF Len(toks) < 3 THEN Raise(loc, "IndexError")
        ELSE IF ~IsFloat(toks[3]) THEN Raise(loc, "ValueError")
        ELSE IF Len(toks) < 5 THEN Raise(loc, "IndexError")
        ELSE IF ~IsDigits(toks[5]) THEN Raise(loc, "ValueError")
        ELSE IF Len(toks) < 6 THEN Raise(loc, "IndexError")
        ELSE IF ~IsDigits(toks[6]) THEN Raise(loc, "ValueError")
        ELSE IF ~({"query_id", "query_description"} \subseteq loc.bound)
        THEN Raise(loc, "UnboundLocalError")
        ELSE Continue([loc EXCEPT
                        !.hit_id = toks[1],
                        !.hit_lst = hit_lst,
                        !.qresult = <<HitsQResultWithHits(loc, hit_lst, toks)>>])

\* one pass of the body of "while True" for a line read (lines 51-119); at the end of
\* the file readline() returns '' and the assertion on line.strip() fails
HitsParseLine(loc, line) ==
    IF Strip(line) = "" THEN Raise(loc, "AssertionError")
    ELSE IF Slice(line, 1, 2) = "//" THEN HitsTerminator(loc)
    ELSE IF loc.state = STATE_HEADER THEN HitsHeaderLine(loc, line)
    ELSE HitsStatsRow(loc, line)

\* AnarciHitsParser.__init__ (lines 21-23)
HitsParserNew(handle) ==
    [pc |-> "new", err |-> "", handle |-> handle, line |-> ReadLineAt(handle, 1),
     pos |-> Min(2, Len(handle) + 1), loc |-> HitsLocals, out |-> <<>>]

RECURSIVE HitsRun(_, _, _)
\* the loop of _parse_qresult from line number pos until it yields or raises
HitsRun(psr, pos, loc) ==
    LET r == HitsParseLine(loc, ReadLineAt(psr.handle, pos))
    IN  IF r.err /= ""
        THEN [psr EXCEPT !.pc = "err", !.err = r.err,
                         !.pos = Min(pos + 1, Len(psr.handle) + 1), !.loc = r.loc,
                         !.out = <<>>]
        ELSE IF r.out /= <<>>
        THEN [psr EXCEPT !.pc = "running", !.pos = pos + 1, !.loc = r.loc, !.out = r.out]
        ELSE HitsRun(psr, pos + 1, r.loc)

\* next() of iter(parser): __iter__ (lines 25-32) around _parse_qresult (lines 38-119)
HitsParserNext(psr) ==
    IF psr.pc = "new"
    THEN IF psr.line = "" THEN StopIterationRaised(psr)
         ELSE {HitsRun(psr, 1, HitsLocals)}
    ELSE {HitsRun(psr, psr.pos, psr.loc)}


(***************************************************************************)
(* Byte offsets of a binary handle over the file.                          *)
(***************************************************************************)
RECURSIVE Concat(_)
\* the bytes of a sequence of lines
Concat(lines) == IF lines = <<>> THEN "" ELSE lines[1] \o Concat(Tail(lines))

RECURSIVE ReadLineFrom(_, _, _)
\* handle.readline() at byte offset off: the bytes up to and including the next line break
ReadLineFrom(lines, i, off) ==
    IF i > Len(lines) THEN ""
    ELSE IF off < Len(lines[i]) THEN Slice(lines[i], off + 1, Len(lines[i]))
    ELSE ReadLineFrom(lines, i + 1, off - Len(lines[i]))

ReadLine(lines, off) == ReadLineFrom(lines, 1, off)

(***************************************************************************)
(* AnarciNumIndexer and AnarciHitsIndexer.  pos is the byte offset of the  *)
(* indexer's single file handle.                                           *)
(***************************************************************************)
STATE_QUERY_ID == 0

\* AnarciNumIndexer.__init__ (lines 176-179)
NumIndexerNew(f) ==
    LET line == ReadLine(f, 0)
    IN  [pc |-> IF line = SIGNATURE THEN "err" ELSE "new",
         err |-> IF line = SIGNATURE THEN "AssertionError" ELSE "",
         line |-> line, pos |-> Len(line),
         loc |-> [qresult_key |-> <<>>, start_offset |-> 0, state |-> STATE_QUERY_ID],
         out |-> <<>>]

\* AnarciHitsIndexer.__init__ (lines 126-130)
HitsIndexerNew(f) ==
    LET line == ReadLine(f, 0)
    IN  [pc |-> IF line /= SIGNATURE THEN "err" ELSE "new",
         err |-> IF line /= SIGNATURE THEN "AssertionError" ELSE "",
         line |-> line, pos |-> Len(line),
         loc |-> [qresult_key |-> <<>>, start_offset |-> 0, state |-> STATE_QUERY_ID],
         out |-> <<>>]

\* the yield of an index entry after which start_offset stays where it was
YieldEntry_WithoutAdvance(ixr, pos, loc, end_offset) ==
    LET entry == [key |-> loc.qresult_key, offset |-> loc.start_offset,
                  length |-> end_offset - loc.start_offset]
    IN  IF loc.qresult_key = <<>>
        THEN {[ixr EXCEPT !.pc = "err", !.err = "TypeError", !.pos = pos, !.loc = loc,
                          !.out = <<>>]}
        ELSE {[ixr EXCEPT !.pc = "running", !.pos = pos, !.loc = loc, !.out = <<entry>>]}

\* the yield of an index entry (anarci_num.py lines 213-215 and 187, anarci_hits.py
\* lines 155-156 and 137); _bytes_to_string(key) raises TypeError for a key that is None
YieldEntry(ixr, pos, loc, end_offset) ==
    LET entry == [key |-> loc.qresult_key, offset |-> loc.start_offset,
                  length |-> end_offset - loc.start_offset]
    IN  IF loc.qresult_key = <<>>
        THEN {[ixr EXCEPT !.pc = "err", !.err = "TypeError", !.pos = pos, !.loc = loc,
                          !.out = <<>>]}
        ELSE {[ixr EXCEPT !.pc = "running", !.pos = pos,
                          !.loc = [loc EXCEPT !.start_offset = end_offset],
                          !.out = <<entry>>]}

RECURSIVE NumIndexRun(_, _, _, _)
\* the loop of AnarciNumIndexer._qresult_index (lines 201-215) from byte offset pos
NumIndexRun(ixr, f, pos, loc) ==
    LET line == ReadLine(f, pos)
        end_offset == pos + Len(line)
        toks == Split(line)
    IN  IF line = ""
        THEN {[ixr EXCEPT !.pc = "done", !.pos = end_offset, !.loc = loc, !.out = <<>>]}
        ELSE IF StartsWith(line, "#") /\ loc.state = STATE_QUERY_ID /\ Len(toks) < 2
        THEN {[ixr EXCEPT !.pc = "err", !.err = "IndexError", !.pos = end_offset,
                          !.loc = loc, !.out = <<>>]}
        ELSE LET loc1 ==
                    IF StartsWith(line, "#")
                    THEN IF loc.state = STATE_QUERY_ID
                         THEN [loc EXCEPT !.qresult_key = <<toks[2]>>,
                                          !.state = STATE_ANNOTATION]
                         ELSE loc
                    ELSE [loc EXCEPT !.state = STATE_QUERY_ID]
             IN  IF Slice(line, 1, 2) = "//"
                 THEN YieldEntry(ixr, end_offset, loc1, end_offset)
                 ELSE NumIndexRun(ixr, f, end_offset, loc1)

\* next() of iter(indexer): AnarciNumIndexer.__iter__ (lines 181-187)
NumIndexerNext(ixr, f) ==
    IF ixr.pc = "new"
    THEN IF ixr.line = "" THEN StopIterationRaised(ixr)
         ELSE NumIndexRun(ixr, f, 0,
                          [qresult_key |-> <<>>, start_offset |-> 0,
                           state |-> STATE_QUERY_ID])
    ELSE NumIndexRun(ixr, f, ixr.pos, ixr.loc)

RECURSIVE HitsIndexRun(_, _, _, _)
\* the loop of AnarciHitsIndexer._qresult_index (lines 146-156) from byte offset pos
HitsIndexRun(ixr, f, pos, loc) ==
    LET line == ReadLine(f, pos)
        end_offset == pos + Len(line)
        toks == Split(line)
    IN  IF line = ""
        THEN {[ixr EXCEPT !.pc = "done", !.pos = end_offset, !.loc = loc, !.out = <<>>]}
        ELSE IF StartsWith(line, "NAME") /\ Len(toks) < 2
        THEN {[ixr EXCEPT !.pc = "err", !.err = "IndexError", !.pos = end_offset,
                          !.loc = loc, !.out = <<>>]}
        ELSE LET loc1 == IF StartsWith(line, "NAME")
                         THEN [loc EXCEPT !.qresult_key = <<toks[2]>>]
                         ELSE loc
             IN  IF Slice(line, 1, 2) = "//"
                 THEN IF loc1.qresult_key = <<>>
                      THEN {[ixr EXCEPT !.pc = "err", !.err = "UnboundLocalError",
                                        !.pos = end_offset, !.loc = loc1, !.out = <<>>]}
                      ELSE YieldEntry(ixr, end_offset, loc1, end_offset)
                 ELSE HitsIndexRun(ixr, f, end_offset, loc1)

\* next() of iter(indexer): AnarciHitsIndexer.__iter__ (lines 132-137); the scan goes on
\* from where the handle stands, with start_offset 0
HitsIndexerNext(ixr, f) == HitsIndexRun(ixr, f, ixr.pos, ixr.loc)

RECURSIVE GetRawRun(_, _, _)
\* the loop of get_raw (anarci_num.py lines 223-229, anarci_hits.py lines 164-170):
\* the lines read so far are qresult_raw; None is returned at the end of the file
GetRawRun(f, pos, qresult_raw) ==
    LET line == ReadLine(f, pos)
    IN  IF line = "" THEN [raw |-> <<>>, none |-> TRUE, pos |-> pos]
        ELSE IF Slice(line, 1, 2) = "//"
        THEN [raw |-> Append(qresult_raw, line), none |-> FALSE, pos |-> pos + Len(line)]
        ELSE GetRawRun(f, pos + Len(line), Append(qresult_raw, line))

\* get_raw without its seek: the lines are read from the start of the file
get_raw_WithoutSeek(f, offset) == GetRawRun(f, 0, <<>>)

\* get_raw(offset): qresult_raw is kept as the sequence of the lines added to it
get_raw(f, offset) == GetRawRun(f, offset, <<>>)

(***************************************************************************)
(* The state: one caller reads one file in one format.  It parses the file *)
(* with the format's parser, scans it with the format's indexer, retrieves *)
(* the raw text of every index entry and parses each raw text alone, or it *)
(* iterates over the same parser object a second time.                     *)
(***************************************************************************)
VARIABLES
    fmt,        \* "num" or "hits": the format the caller states
    file,       \* the lines of the source file
    phase,      \* "start", "parse", "index"
    parser,     \* the parser object
    qresults,   \* the QueryResults the parser has yielded
    indexer,    \* the indexer object
    entries,    \* the index entries the indexer has yielded
    raws,       \* raws[k]: what get_raw returned for the offset of entries[k]
    reparsed,   \* reparsed[k]: the outcome of parsing raws[k] alone
    earlier,    \* earlier[n]: the QueryResults of the n-th finished iteration of the parser
    retrieved,  \* what the get_raw call at an offset of the caller's choice returned,
                \* and where the scan of the indexer stood (scan) when it was made
    scanned     \* scanned[n]: the entries of the n-th finished iteration of the indexer

vars ==
    <<fmt, file, phase, parser, qresults, indexer, entries, raws, reparsed, earlier,
      retrieved, scanned>>

NoObject == [pc |-> "none"]

Init ==
    /\ fmt \in {"num", "hits"}
    /\ file \in Files
    /\ phase = "start"
    /\ parser = NoObject
    /\ qresults = <<>>
    /\ indexer = NoObject
    /\ entries = <<>>
    /\ raws = <<>>
    /\ reparsed = <<>>
    /\ earlier = <<>>
    /\ retrieved = NoObject
    /\ scanned = <<>>

\* SearchIO.parse(file, fmt): the parser of the format is constructed on the file
ParserInit ==
    /\ phase = "start"
    /\ parser' = IF fmt = "num" THEN NumParserNew(TextHandle(file))
                               ELSE HitsParserNew(TextHandle(file))
    /\ phase' = "parse"
    /\ UNCHANGED <<fmt, file, qresults, indexer, entries, raws, reparsed, earlier,
                   retrieved, scanned>>

\* the consumer asks the parser for its next QueryResult
ParserNext ==
    /\ phase = "parse"
    /\ parser.pc \in {"new", "running"}
    /\ \E next \in (IF fmt = "num" THEN NumParserNext(parser) ELSE HitsParserNext(parser)) :
          /\ parser' = next
          /\ qresults' = qresults \o next.out
    /\ UNCHANGED <<fmt, file, phase, indexer, entries, raws, reparsed, earlier,
                   retrieved, scanned>>

\* the indexer of the format is constructed on the file
IndexerInit ==
    /\ phase = "parse"
    /\ parser.pc \in {"done", "err"}
    /\ earlier = <<>>
    /\ indexer' = IF fmt = "num" THEN NumIndexerNew(file) ELSE HitsIndexerNew(file)
    /\ phase' = "index"
    /\ UNCHANGED <<fmt, file, parser, qresults, entries, raws, reparsed, earlier,
                   retrieved, scanned>>

\* the consumer asks the indexer for its next entry
IndexerNext ==
    /\ phase = "index"
    /\ indexer.pc \in {"new", "running"}
    /\ \E next \in (IF fmt = "num" THEN NumIndexerNext(indexer, file)
                                   ELSE HitsIndexerNext(indexer, file)) :
          /\ indexer' = next
          /\ entries' = entries \o next.out
    /\ UNCHANGED <<fmt, file, phase, parser, qresults, raws, reparsed, earlier,
                   retrieved, scanned>>

\* indexer.get_raw(offset) for the next entry of the finished scan
GetRaw ==
    /\ phase = "index"
    /\ indexer.pc \in {"done", "err"}
    /\ Len(raws) < Len(entries)
    /\ LET got == get_raw(file, entries[Len(raws) + 1].offset)
       IN  /\ raws' = Append(raws, [raw |-> got.raw, none |-> got.none])
           /\ indexer' = [indexer EXCEPT !.pos = got.pos]
    /\ UNCHANGED <<fmt, file, phase, parser, qresults, entries, reparsed, earlier,
                   retrieved, scanned>>

\* the first QueryResult of a new parser over the raw text alone
ParseRaw(raw) ==
    LET psr == NumParserNew(raw.raw)
    IN  IF raw.none THEN {[pc |-> "err", err |-> "AttributeError", out |-> <<>>]}
        ELSE IF psr.pc = "err" THEN {[pc |-> "err", err |-> psr.err, out |-> <<>>]}
        ELSE {[pc |-> n.pc, err |-> n.err, out |-> n.out] : n \in NumParserNext(psr)}

\* the raw text of the next retrieved entry is parsed alone
Reparse ==
    /\ fmt = "num"
    /\ Len(reparsed) < Len(raws)
    /\ \E res \in ParseRaw(raws[Len(reparsed) + 1]) :
          reparsed' = Append(reparsed, res)
    /\ UNCHANGED <<fmt, file, phase, parser, qresults, indexer, entries, raws, earlier,
                   retrieved, scanned>>

\* iter(parser) on the parser object whose first iteration has finished: __iter__
\* (lines 29-35) starts a new generator on the same object, whose handle is where the
\* finished iteration left it
Reiterate ==
    /\ fmt = "num"
    /\ phase = "parse"
    /\ parser.pc = "done"
    /\ earlier = <<>>
    /\ earlier' = Append(earlier, qresults)
    /\ qresults' = <<>>
    /\ parser' = [parser EXCEPT !.pc = "new", !.out = <<>>]
    /\ UNCHANGED <<fmt, file, phase, indexer, entries, raws, reparsed, retrieved,
                   scanned>>

Next ==
    \/ ParserInit
    \/ ParserNext
    \/ Reiterate
    \/ IndexerInit
    \/ IndexerNext
    \/ GetRaw
    \/ Reparse

Spec == Init /\ [][Next]_vars

(***************************************************************************)
(* The caller that uses one indexer object for more than one scan with     *)
(* retrievals after it: it calls get_raw once at a time of its choice, also *)
(* between two steps of the scan, and it iterates over the indexer a       *)
(* second time.                                                            *)
(***************************************************************************)
\* indexer.get_raw(offset) at the start of any line, or at the end of the file, on the
\* handle that the scan of the indexer reads from
GetRawAt ==
    /\ phase = "index"
    /\ indexer.pc \in {"new", "running", "done"}
    /\ retrieved = NoObject
    /\ \E i \in 1..(Len(file) + 1) :
          LET offset == Len(Concat(SubSeq(file, 1, i - 1)))
              ret == get_raw(file, offset)
          IN  /\ retrieved' = [pc |-> "returned", offset |-> offset, raw |-> ret.raw,
                               none |-> ret.none, scan |-> indexer.pc]
              /\ indexer' = [indexer EXCEPT !.pos = ret.pos]
    /\ UNCHANGED <<fmt, file, phase, parser, qresults, entries, raws, reparsed, earlier,
                   scanned>>

\* iter(indexer) on the indexer object whose first iteration has ended: __iter__
\* (anarci_num.py lines 181-187, anarci_hits.py lines 132-137) starts a new generator,
\* with new locals, over the handle where it stands
IndexerReiterate ==
    /\ phase = "index"
    /\ indexer.pc = "done"
    /\ scanned = <<>>
    /\ scanned' = Append(scanned, entries)
    /\ entries' = <<>>
    /\ indexer' = [indexer EXCEPT !.pc = "new", !.out = <<>>,
                                  !.loc = [qresult_key |-> <<>>, start_offset |-> 0,
                                           state |-> STATE_QUERY_ID]]
    /\ UNCHANGED <<fmt, file, phase, parser, qresults, raws, reparsed, earlier,
                   retrieved>>

NextReuse ==
    \/ ParserInit
    \/ ParserNext
    \/ IndexerInit
    \/ IndexerNext
    \/ GetRawAt
    \/ IndexerReiterate

SpecReuse == Init /\ [][NextReuse]_vars

(***************************************************************************)
(* The records of a file as the format defines them, read off the file     *)
(* without the parser: a record is the lines up to a terminator line.      *)
(***************************************************************************)
TerminatorPositions(f) == {i \in 1..Len(f) : Slice(f[i], 1, 2) = "//"}

\* the lines of the k-th record of the file, its terminator line excluded
RecordLines(f, k) ==
    LET first == IF k = 1 THEN 1 ELSE Nth(TerminatorPositions(f), k - 1) + 1
    IN  SubSeq(f, first, Nth(TerminatorPositions(f), k) - 1)

IsCommentLine(l) == Char(l, 1) = "#"
IsStatsMarker(l) == IsCommentLine(l) /\ Search(RE_STATS, l)
IsGermlineMarker(l) == IsCommentLine(l) /\ ~Search(RE_STATS, l) /\ Search(RE_GERMLINE_STATS, l)

\* a residue row is a gap row when its last token is '-'
IsGapRow(l) == LET toks == Split(l) IN toks[Len(toks)] = "-"
IsResidueRow(l) == ~IsCommentLine(l)

\* the residue rows of the k-th record that are not gap rows
NonGapRows(f, k) ==
    SelectSeq(RecordLines(f, k), LAMBDA l : IsResidueRow(l) /\ ~IsGapRow(l))

\* the start offset of the last StatsMarker of the k-th record
StatsStart(f, k) ==
    LET markers == SelectSeq(RecordLines(f, k), IsStatsMarker)
    IN  IntOf(SplitOn(markers[Len(markers)], "|")[6])

HasStatsMarker(f, k) == \E i \in DOMAIN RecordLines(f, k) : IsStatsMarker(RecordLines(f, k)[i])
HasGermlineMarker(f, k) ==
    \E i \in DOMAIN RecordLines(f, k) : IsGermlineMarker(RecordLines(f, k)[i])

\* the parts of a QueryResult that holds a hit
HasHit(q) == q.hits /= <<>>
FragmentOf(q) == q.hits[1].hsps[1].fragments[1]
FeaturesOf(q) == FragmentOf(q).query.features
SummaryOf(q) == FeaturesOf(q)[Len(FeaturesOf(q))]
\* the per-residue Annotations of the fragment: its features of a scheme type
AnnotationsOf(q) == SelectSeq(FeaturesOf(q), LAMBDA ft : ft.type /= "ANARCI_hit")
CarriesGermline(q) == GermlineNames \cap DOMAIN q.attrs /= {}

\* the QueryResults the numbered-format parser has yielded that hold a hit, by their position
HitPositions == {k \in 1..Len(qresults) : fmt = "num" /\ HasHit(qresults[k])}

(***************************************************************************)
(* The claims.                                                             *)
(***************************************************************************)

\* C1: for every record position k, parsing alone the raw text that get_raw returns for the
\* k-th index entry yields a QueryResult equal, field by field, to the k-th QueryResult
\* of the parse of the whole file.
C1_RoundTripEqualsWholeFileParse ==
    \A k \in 1..Len(reparsed) :
        k <= Len(qresults) => reparsed[k].out = <<qresults[k]>>

\* C2: for every index entry (key, start_offset, byte_length) of either indexer,
\* get_raw(start_offset) returns exactly the bytes [start_offset, start_offset +
\* byte_length) of the file, ending with the record's terminator line and its line break.
C2_GetRawReturnsTheSpan ==
    \A k \in 1..Len(raws) :
        LET e == entries[k]
            bytes == Concat(raws[k].raw)
        IN  /\ ~raws[k].none
            /\ bytes = Slice(Concat(file), e.offset + 1, e.offset + e.length)
            /\ Len(bytes) = e.length
            /\ Slice(raws[k].raw[Len(raws[k].raw)], 1, 2) = "//"
            /\ Slice(bytes, Len(bytes), Len(bytes)) = "\n"

\* C2 witness: the raw text of an entry that is not the first of its file was retrieved,
\* in the hits format, and it holds more lines than a terminator
C2_Witness ==
    /\ fmt = "hits"
    /\ Len(raws) >= 2
    /\ entries[2].offset > 0
    /\ Len(raws[2].raw) > 2

\* C3: for every file that the parser and the indexer of the numbered format both accept,
\* the indexer yields as many entries as the parser yields records, in the same order, and
\* the key of the k-th entry is the id of the k-th QueryResult.
C3_IndexKeysAreParsedIds ==
    (fmt = "num" /\ parser.pc = "done" /\ indexer.pc = "done")
        => /\ Len(entries) = Len(qresults)
           /\ \A k \in 1..Len(entries) : entries[k].key = <<qresults[k].id>>

\* C4: for every numbered-format record that yields a hit, query_end - query_start equals
\* the number of non-gap residue rows of the record and the length of the sequence.
C4_SpanLengthIsResidueCount ==
    \A k \in HitPositions :
        LET frag == FragmentOf(qresults[k])
        IN  /\ frag.query_end - frag.query_start = Len(NonGapRows(file, k))
            /\ frag.query_end - frag.query_start = Len(frag.query.seq)

\* C5: for every numbered-format record that yields a hit, query_start is the start offset
\* of the StatsMarker, query_end is the number of non-gap residue rows of the record, and
\* the location of the Summary feature is [query_start, that number].
C5_QueryEndIsResidueCount ==
    \A k \in HitPositions :
        LET frag == FragmentOf(qresults[k])
            n == Len(NonGapRows(file, k))
        IN  HasStatsMarker(file, k)
                => /\ frag.query_start = StatsStart(file, k)
                   /\ frag.query_end = n
                   /\ SummaryOf(qresults[k]).location = <<frag.query_start, n>>

\* C6: for every numbered-format record that yields a hit, the Summary annotation spans
\* [query_start, query_start + n), n the number of non-gap residue rows of the record.
C6_SummarySpansTheResidues ==
    \A k \in HitPositions :
        LET frag == FragmentOf(qresults[k])
        IN  SummaryOf(qresults[k]).location =
                <<frag.query_start, frag.query_start + Len(NonGapRows(file, k))>>

\* C7: for every numbered-format record that yields a hit, the number of per-residue
\* Annotations equals the length of the fragment's sequence and the length of the
\* letter-annotation list stored under the scheme name, and the feature list is those
\* Annotations in row order followed by one Summary entry as its last element.
C7_AnnotationsMatchSequence ==
    \A k \in HitPositions :
        LET q == qresults[k]
            seq == FragmentOf(q).query.seq
            letters == FragmentOf(q).query.letter_annotations
            rows == SelectSeq(RecordLines(file, k), IsResidueRow)
            \* the rows whose numbering label starts the i-th Annotation's label
            rowsOf(i) == {j \in DOMAIN rows :
                            LET toks == LineInfo[rows[j]].split
                            IN  /\ StartsWith(letters[q.attrs.scheme][i], toks[2])
                                /\ Char(seq, i) = Upper(toks[Len(toks)])}
        IN  /\ Len(AnnotationsOf(q)) = Len(seq)
            /\ DOMAIN letters = {q.attrs.scheme}
            /\ Len(letters[q.attrs.scheme]) = Len(seq)
            /\ Len(FeaturesOf(q)) = Len(seq) + 1
            /\ SummaryOf(q).type = "ANARCI_hit"
            /\ SubSeq(FeaturesOf(q), 1, Len(seq)) = AnnotationsOf(q)
            /\ \A i \in 1..Len(seq) :
                   /\ FeaturesOf(q)[i].qualifiers.residue = Char(seq, i)
                   /\ FeaturesOf(q)[i].qualifiers.label
                          = Char(seq, i) \o letters[q.attrs.scheme][i]
                   /\ rowsOf(i) /= {}
                   /\ \A i2 \in (i + 1)..Len(seq) :
                          \A j \in rowsOf(i), j2 \in rowsOf(i2) : j < j2

\* C7 witness: a record with a gap row between two residue rows has yielded a hit
C7_Witness ==
    \E k \in HitPositions :
        /\ Len(FragmentOf(qresults[k]).query.seq) >= 2
        /\ \E i \in DOMAIN RecordLines(file, k) :
               /\ i > 1 /\ i < Len(RecordLines(file, k))
               /\ IsResidueRow(RecordLines(file, k)[i])
               /\ IsGapRow(RecordLines(file, k)[i])
               /\ IsResidueRow(RecordLines(file, k)[i - 1])
               /\ ~IsGapRow(RecordLines(file, k)[i - 1])
               /\ IsResidueRow(RecordLines(file, k)[i + 1])
               /\ ~IsGapRow(RecordLines(file, k)[i + 1])

\* C8: the j-th non-gap residue row of a record (j from 0) produces an Annotation at
\* [query_start + j, query_start + j + 1); a gap row produces no Annotation and does not
\* advance j.
C8_AnnotationPositionsAreContiguous ==
    \A k \in HitPositions :
        LET q == qresults[k]
            rows == NonGapRows(file, k)
            start == FragmentOf(q).query_start
        IN  /\ Len(AnnotationsOf(q)) = Len(rows)
            /\ \A j \in 1..Len(AnnotationsOf(q)) :
                   /\ AnnotationsOf(q)[j].location = <<start + j - 1, start + j>>
                   /\ j <= Len(rows)
                        => AnnotationsOf(q)[j].qualifiers.residue
                              = Upper(Split(rows[j])[Len(Split(rows[j]))])

\* C9: a QueryResult with a hit carries the germline attributes if and only if a
\* GermlineMarker line occurred inside that same record.
C9_GermlineOnlyFromOwnRecord ==
    \A k \in HitPositions :
        CarriesGermline(qresults[k]) <=> HasGermlineMarker(file, k)

\* C10: every QueryResult yielded by the numbered-format parser has either all five of
\* species_germline, v_gene, v_identity, j_gene, j_identity or none of them.
C10_GermlineAllOrNothing ==
    /\ \A k \in 1..Len(qresults) :
           GermlineNames \cap DOMAIN qresults[k].attrs \in {{}, GermlineNames}
    /\ \A k \in 1..Len(reparsed) :
           \A i \in DOMAIN reparsed[k].out :
               GermlineNames \cap DOMAIN reparsed[k].out[i].attrs \in {{}, GermlineNames}

\* C10 witness: the parser has yielded a record with the five attributes and a record
\* with a hit and none of them
C10_Witness ==
    /\ \E k \in HitPositions : GermlineNames \subseteq DOMAIN qresults[k].attrs
    /\ \E k \in HitPositions : GermlineNames \cap DOMAIN qresults[k].attrs = {}

\* the statistics rows of the k-th record of a hits file: its lines past the table header
HitsStatsRows(f, k) ==
    LET lines == RecordLines(f, k)
        headers == {i \in DOMAIN lines : StartsWith(lines[i], "         id description")}
    IN  IF headers = {} THEN <<>>
        ELSE SubSeq(lines, Nth(headers, 1) + 1, Len(lines))

\* the statistics rows of the k-th record in the format the caller states
StatsRows(f, k) ==
    IF fmt = "num" THEN SelectSeq(RecordLines(f, k), IsStatsMarker) ELSE HitsStatsRows(f, k)

\* C11: in either format, the QueryResult of a record with zero statistics rows has an
\* empty hit list and none of scheme, chain_type, species set, wherever the record is
\* in the file and whatever the records before it contained.
C11_NoStatsRowsNoHit ==
    \A k \in 1..Len(qresults) :
        StatsRows(file, k) = <<>>
            => /\ qresults[k].hits = <<>>
               /\ {"scheme", "chain_type", "species"} \cap DOMAIN qresults[k].attrs = {}

\* the id and the description that the header line of a record states
HeaderId(l) ==
    LET toks == LineInfo[l].split
    IN  IF SubSeq(toks, 2, Min(3, Len(toks))) = <<"Input", "sequence">>
        THEN "<unknown id>" ELSE toks[2]
HeaderDescription(l) ==
    LET toks == LineInfo[l].split
    IN  IF SubSeq(toks, 2, Min(3, Len(toks))) = <<"Input", "sequence">>
        THEN "" ELSE Join(" ", SubSeq(toks, 3, Len(toks)))

RECURSIVE IsSubsequence(_, _)
\* the characters of s occur in t in the same order
IsSubsequence(s, t) ==
    IF s = "" THEN TRUE
    ELSE IF t = "" THEN FALSE
    ELSE IF Char(s, 1) = Char(t, 1)
         THEN IsSubsequence(Slice(s, 2, Len(s)), Slice(t, 2, Len(t)))
         ELSE IsSubsequence(s, Slice(t, 2, Len(t)))

\* the residue tokens of the residue rows of the k-th record, in row order, in upper case
RowResidues(f, k) ==
    LET rows == SelectSeq(RecordLines(f, k), IsResidueRow)
    IN  Concat([i \in DOMAIN rows |->
                   LET toks == LineInfo[rows[i]].split IN Upper(toks[Len(toks)])])

\* the k-th record starts with a header line
HasHeader(f, k) == RecordLines(f, k) /= <<>> /\ IsCommentLine(RecordLines(f, k)[1])

\* the terminator lines the parser has read and passed: when an error has ended the
\* parse, the line that raised it is not passed
TerminatorsPassed ==
    LET TerminatorsRead == {i \in TerminatorPositions(file) : i < parser.pos}
    IN  IF parser.pc = "err" THEN {i \in TerminatorsRead : i < parser.pos - 1}
        ELSE TerminatorsRead

C13_BackReferencesAgree ==
    \A k \in 1..Len(qresults) :
        \A i \in DOMAIN qresults[k].hits :
            LET h == qresults[k].hits[i]
            IN  /\ h.query_id = qresults[k].id
                /\ \A j \in DOMAIN h.hsps :
                       /\ h.hsps[j].hit_id = h.id
                       /\ h.hsps[j].query_id = qresults[k].id
                       /\ \A m \in DOMAIN h.hsps[j].fragments :
                              /\ h.hsps[j].fragments[m].hit_id = h.id
                              /\ h.hsps[j].fragments[m].query_id = qresults[k].id

\* C13 witness: the first two records of a file have each yielded a QueryResult with a hit,
\* and the two QueryResults differ in their ids
C13_Witness ==
    /\ Len(qresults) >= 2
    /\ qresults[2].hits /= <<>>
    /\ qresults[1].hits /= <<>>
    /\ qresults[2].id /= qresults[1].id

\* C14: every QueryResult that the numbered-format parser yields owns either no Hit or
\* exactly one Hit with exactly one HSP with exactly one Fragment; in the hits format
\* every Hit holds exactly one HSP with exactly one Fragment.
C14_OneHitOneHSPOneFragment ==
    \A k \in 1..Len(qresults) :
        /\ fmt = "num" => Len(qresults[k].hits) \in {0, 1}
        /\ \A i \in DOMAIN qresults[k].hits :
               /\ Len(qresults[k].hits[i].hsps) = 1
               /\ Len(qresults[k].hits[i].hsps[1].fragments) = 1

\* C14 witness: the numbered-format parser has yielded a QueryResult without a Hit and a
\* QueryResult with a Hit from one file
C14_Witness ==
    /\ fmt = "num"
    /\ \E k \in 1..Len(qresults) : qresults[k].hits = <<>>
    /\ \E k \in 1..Len(qresults) : qresults[k].hits /= <<>>

\* a well-formed hits file: the signature line, then records that each end with a
\* terminator line, and no blank line
WellFormedHitsFile(f) ==
    /\ Len(f) >= 2
    /\ f[1] = SIGNATURE
    /\ Slice(f[Len(f)], 1, 2) = "//"
    /\ \A i \in DOMAIN f : Strip(f[i]) /= ""
    /\ \A k \in 1..Cardinality(TerminatorPositions(f)) :
           \E i \in DOMAIN RecordLines(f, k) : StartsWith(RecordLines(f, k)[i], "NAME")

\* C15: consuming the hits-format parser to exhaustion on a well-formed hits file raises
\* no error: the parser yields one QueryResult per terminator and then ends.
C15_HitsParserEndsNormally ==
    (fmt = "hits" /\ WellFormedHitsFile(file))
        => /\ parser.pc /= "err"
           /\ parser.pc = "done" => Len(qresults) = Cardinality(TerminatorPositions(file))

\* the QueryResults the hits-format parser has yielded for records with statistics rows
HitsRowPositions ==
    {k \in 1..Len(qresults) : fmt = "hits" /\ HitsStatsRows(file, k) /= <<>>}

\* the id that the NAME line of the k-th record of a hits file states
NameId(f, k) ==
    LET names == SelectSeq(RecordLines(f, k), LAMBDA l : StartsWith(l, "NAME"))
    IN  Split(names[1])[2]

\* the chunks of the SEQUENCE lines of the k-th record of a hits file, concatenated
SequenceChunks(f, k) ==
    LET seqs == SelectSeq(RecordLines(f, k), LAMBDA l : StartsWith(l, "SEQUENCE"))
    IN  Concat([i \in DOMAIN seqs |-> Split(seqs[i])[Len(Split(seqs[i]))]])

\* C16: for every hits-format record with at least one statistics row the QueryResult owns
\* exactly one Hit per statistics row of that record, in row order, and no Hit of
\* another record.
C16_OneHitPerStatsRow ==
    \A k \in HitsRowPositions :
        LET rows == HitsStatsRows(file, k)
        IN  /\ Len(qresults[k].hits) = Len(rows)
            /\ \A i \in DOMAIN qresults[k].hits :
                   /\ i <= Len(rows) => qresults[k].hits[i].id = Split(rows[i])[1]
                   /\ qresults[k].hits[i].query_id = NameId(file, k)

\* C16 witness: two records with statistics rows were parsed and the second has two rows
C16_Witness ==
    /\ {1, 2} \subseteq HitsRowPositions
    /\ Len(HitsStatsRows(file, 2)) = 2
    /\ Len(qresults[2].hits) = 2

\* C17: for every hits-format record with at least one statistics row, input_sequence is
\* the concatenation, in file order, of the chunks of that record's SEQUENCE lines.
C17_InputSequenceIsTheChunks ==
    \A k \in HitsRowPositions :
        qresults[k].attrs.input_sequence = SequenceChunks(file, k)

\* C17 witness: two records with statistics rows were parsed, the first with one SEQUENCE
\* line and the second with two
C17_Witness ==
    /\ {1, 2} \subseteq HitsRowPositions
    /\ qresults[1].attrs.input_sequence = "QVKLE"
    /\ qresults[2].attrs.input_sequence = "QVKLESGG"

\* C18: for every hits-format statistics row with offsets (start, end) the Fragment has
\* query_start = start, query_end = end and the sequence input_sequence[start:end] of
\* the same record.
C18_FragmentIsTheSlice ==
    \A k \in HitsRowPositions :
        \A i \in DOMAIN qresults[k].hits :
            LET frag == qresults[k].hits[i].hsps[1].fragments[1]
                toks == Split(HitsStatsRows(file, k)[i])
            IN  i <= Len(HitsStatsRows(file, k))
                    => /\ frag.query_start = IntOf(toks[5])
                       /\ frag.query_end = IntOf(toks[6])
                       /\ frag.query.seq = Slice(qresults[k].attrs.input_sequence,
                                                 frag.query_start + 1, frag.query_end)

\* C18 witness: a statistics row with a start offset above 0 has produced a Fragment
\* shorter than the input sequence
C18_Witness ==
    \E k \in HitsRowPositions :
        \E i \in DOMAIN qresults[k].hits :
            LET frag == qresults[k].hits[i].hsps[1].fragments[1]
            IN  /\ frag.query_start > 0
                /\ frag.query.seq /= ""
                /\ Len(frag.query.seq) < Len(qresults[k].attrs.input_sequence)

\* C19: for every hits-format record with several statistics rows, chain_type and species
\* of the QueryResult are those of the last statistics row of the record.
C19_ChainTypeOfLastRow ==
    \A k \in HitsRowPositions :
        LET rows == HitsStatsRows(file, k)
            last == SplitOn(Split(rows[Len(rows)])[1], "_")
        IN  /\ qresults[k].attrs.species = last[1]
            /\ qresults[k].attrs.chain_type = last[2]

\* C19 witness: a record with two statistics rows of different species and chain type
\* has yielded its QueryResult
C19_Witness ==
    \E k \in HitsRowPositions :
        LET rows == HitsStatsRows(file, k)
        IN  /\ Len(rows) = 2
            /\ Split(rows[1])[1] = "human_H"
            /\ Split(rows[2])[1] = "mouse_K"
            /\ qresults[k].attrs.species = "mouse"

\* the first line of the file is the signature comment of the hits format
StartsWithSignature(f) == f /= <<>> /\ RStrip(f[1]) = HITS_PREFIX

\* C20: on a source whose first line is the hits-format signature the construction of the
\* numbered-format parser and of the numbered-format indexer fails, and on a source whose
\* first line is not that signature the construction of the hits-format indexer fails,
\* each with an error and before any record or index entry is produced.
C20_SignatureChecksFailFast ==
    /\ (fmt = "num" /\ StartsWithSignature(file))
          => /\ parser.pc \in {"none", "err"}
             /\ indexer.pc \in {"none", "err"}
             /\ qresults = <<>> /\ entries = <<>>
    /\ (fmt = "hits" /\ ~StartsWithSignature(file))
          => /\ indexer.pc \in {"none", "err"}
             /\ entries = <<>>

\* C21: on a file that does not begin with the hits-format signature line the hits-format
\* parser fails with an error and yields no record.
C21_HitsParserChecksSignature ==
    (fmt = "hits" /\ file /= <<>> /\ ~StartsWithSignature(file))
        => /\ qresults = <<>>
           /\ parser.pc \notin {"running", "done"}

\* the blank lines of the file
BlankPositions == {i \in DOMAIN file : Strip(file[i]) = ""}

\* C22: when the iteration of either parser reads a blank line it raises an error at that
\* line; no QueryResult is yielded for the record that holds the blank line nor for any
\* record after it.
C22_BlankLineAbortsTheParse ==
    \A b \in BlankPositions :
        /\ Len(qresults) <= Cardinality({i \in TerminatorPositions(file) : i < b})
        /\ (parser.pc \in {"running", "done", "err"} /\ parser.pos > b)
              => /\ parser.pc = "err"
                 /\ parser.err = "AssertionError"
                 /\ parser.pos = b + 1

\* C22 witness: a parser has yielded the first record and has then raised at a blank line
\* that is followed by a terminator line
C22_Witness ==
    \E b \in BlankPositions :
        /\ parser.pc = "err"
        /\ parser.pos = b + 1
        /\ Len(qresults) = 1
        /\ \E i \in TerminatorPositions(file) : i > b

\* C23: on a numbered-format file that ends with record lines without a terminator line
\* the parser raises an error; it does not end the sequence normally with the final
\* record left out.
C23_UnterminatedRecordIsAnError ==
    LET last == file[Len(file)]
        EndsUnterminated == file /= <<>> /\ Slice(last, 1, 2) /= "//" /\ Strip(last) /= ""
    IN  (fmt = "num" /\ EndsUnterminated) => parser.pc /= "done"

\* C24: a numbered-format record, at any place of the file, in which a residue row comes
\* before a StatsMarker of the same record makes the parse fail; no hit is built for it
\* from the statistics or the scheme of an earlier record.
C24_ResidueBeforeStatsIsAnError ==
    \A k \in 1..Len(qresults) :
        LET lines == RecordLines(file, k)
            ResidueBeforeStats ==
                \E i \in DOMAIN lines :
                    /\ IsResidueRow(lines[i]) /\ ~IsGapRow(lines[i])
                    /\ \A j \in 1..(i - 1) : ~IsStatsMarker(lines[j])
        IN  ~(fmt = "num" /\ ResidueBeforeStats)

\* C25: a numbered-format record, at any place of the file, whose first line is not a '#'
\* header line makes the parse fail; the record is not yielded under the id or the
\* description of an earlier record.
C25_MissingHeaderIsAnError ==
    \A k \in 1..Len(qresults) :
        fmt = "num" => HasHeader(file, k)

\* C26: parsing or indexing a source without any content fails with an error; it never
\* ends as a successful, empty sequence of records or of index entries.
C26_EmptySourceIsAnError ==
    file = <<>> => (parser.pc /= "done" /\ indexer.pc /= "done")

\* C27: the index entries of one scan tile the file: the first starts at offset 0, each
\* next one starts where the one before ends, every span ends just past a terminator
\* line and its line break, and in the numbered format each span starts at the first
\* byte of the header line of its record.
C27_IndexEntriesTileTheFile ==
    \A k \in 1..Len(entries) :
        LET e == entries[k]
            t == Nth(TerminatorPositions(file), k)
            OffsetAfterLine(f, i) == Len(Concat(SubSeq(f, 1, i)))
        IN  /\ k = 1 => e.offset = 0
            /\ k > 1 => e.offset = entries[k - 1].offset + entries[k - 1].length
            /\ e.offset + e.length = OffsetAfterLine(file, t)
            /\ Slice(file[t], Len(file[t]), Len(file[t])) = "\n"
            /\ (fmt = "num" /\ HasHeader(file, k))
                  => /\ ReadLine(file, e.offset) = RecordLines(file, k)[1]
                     /\ e.offset = IF k = 1 THEN 0
                                   ELSE OffsetAfterLine(file,
                                                        Nth(TerminatorPositions(file), k - 1))

\* C27 witness: a scan has yielded two entries, the second not at offset 0
C27_Witness ==
    /\ Len(entries) = 2
    /\ entries[2].offset > 0
    /\ entries[2].length > 3

\* C28: every QueryResult that either parser yields, with or without hits, has program
\* 'ANARCI', version '1.3' and target 'NCBI protein database'.
C28_ProgramVersionTarget ==
    \A k \in 1..Len(qresults) :
        /\ qresults[k].program = "ANARCI"
        /\ qresults[k].version = "1.3"
        /\ qresults[k].target = "NCBI protein database"

\* C29: when the k-th QueryResult is handed to the consumer the parser has read the file
\* up to the k-th terminator line and no further, so that a blank line after the k-th
\* terminator does not keep the first k records from being delivered.
C29_ParseIsPullBased ==
    /\ parser.pc = "running"
          => /\ parser.out = <<qresults[Len(qresults)]>>
             /\ parser.pos - 1 = Nth(TerminatorPositions(file), Len(qresults))
    /\ \A b \in BlankPositions :
           (parser.pc = "err" /\ parser.err = "AssertionError" /\ parser.pos > b)
               => Len(qresults) = Cardinality({i \in TerminatorPositions(file) : i < b})

\* C29 witness: the first record has been handed over while the line after its terminator
\* is a blank line, not yet read
C29_Witness ==
    /\ parser.pc = "running"
    /\ Len(qresults) = 1
    /\ parser.pos \in BlankPositions

\* C30: every iteration of the numbered-format parser reads the file from its first line,
\* although the constructor has read that line: the first QueryResult takes its id and
\* description from the first line, and a second iteration of the same parser object,
\* started after the first has finished, yields the same QueryResults in the same order.
C30_IterationRestartsAtTheStart ==
    fmt = "num"
        => /\ (qresults /= <<>> /\ HasHeader(file, 1))
                 => /\ qresults[1].id = HeaderId(file[1])
                    /\ qresults[1].description = HeaderDescription(file[1])
           /\ \A n \in 1..Len(earlier) :
                  /\ Len(qresults) <= Len(earlier[n])
                  /\ \A k \in 1..Len(qresults) : qresults[k] = earlier[n][k]
                  /\ parser.pc \in {"done", "err"} => qresults = earlier[n]

\* C30 witness: the second iteration has finished and has yielded two QueryResults
C30_Witness ==
    /\ fmt = "num"
    /\ earlier /= <<>>
    /\ parser.pc = "done"
    /\ Len(qresults) = 2

\* C31: a record ends only at a line that consists of '//' and its line break: the
\* parsers yield no more QueryResults, and the index scans no more entries, than the file
\* has such lines, and the raw text that get_raw returns ends with such a line.
C31_OnlyTheExactTerminatorEndsARecord ==
    LET ExactTerminators == {"//\n", "//\r\n", "//"}
        exact == {i \in DOMAIN file : file[i] \in ExactTerminators}
    IN  /\ Len(qresults) <= Cardinality(exact)
        /\ Len(entries) <= Cardinality(exact)
        /\ \A k \in DOMAIN raws :
               ~raws[k].none => raws[k].raw[Len(raws[k].raw)] \in ExactTerminators

\* C32: a residue row of the numbered format whose last token is '-' is a gap row, with
\* three tokens or with four: the sequence, the Annotations and the residue counter
\* (the query_end of the fragment) of a record count only its rows that are not gap rows.
C32_GapRowsAddNothing ==
    \A k \in HitPositions :
        LET rows == NonGapRows(file, k)
            frag == FragmentOf(qresults[k])
        IN  /\ Len(frag.query.seq) = Len(rows)
            /\ Len(AnnotationsOf(qresults[k])) = Len(rows)
            /\ frag.query_end = Len(rows)
            /\ \A i \in 1..Len(frag.query.seq) : Char(frag.query.seq, i) /= "-"

\* C36: the Annotation of a residue row of four tokens 'chain number code residue' has
\* the scheme_number number \o code, as the file writes them, and the label
\* residue \o scheme_number.
C36_InsertionCodeIsKept ==
    \A k \in HitPositions :
        LET rows == NonGapRows(file, k)
            annots == AnnotationsOf(qresults[k])
        IN  Len(annots) = Len(rows)
                => \A i \in DOMAIN rows :
                       LET toks == Split(rows[i])
                           num == annots[i].qualifiers["ANARCI_" \o annots[i].type \o "_num"]
                       IN  Len(toks) = 4
                               => /\ num = toks[2] \o toks[3]
                                  /\ annots[i].qualifiers["label"]
                                         = annots[i].qualifiers["residue"] \o toks[2] \o toks[3]

\* C33: in the numbered format the first '#' line of a record alone gives the id and the
\* description of its QueryResult and the key of its index entry; a '#' line further on
\* in the record, also one after residue rows, changes neither.
C33_FirstCommentLineNamesTheRecord ==
    fmt = "num"
        => /\ \A k \in 1..Len(qresults) :
                  HasHeader(file, k)
                      => /\ qresults[k].id = HeaderId(RecordLines(file, k)[1])
                         /\ qresults[k].description
                                = HeaderDescription(RecordLines(file, k)[1])
           /\ \A k \in 1..Len(entries) :
                  HasHeader(file, k)
                      => entries[k].key = <<Split(RecordLines(file, k)[1])[2]>>

\* C34: when the numbered-format parser goes on after a yield its sequence, annotation
\* list and feature list are empty, its residue counter is 0 and its state is Header, so
\* that the sequence, the Annotations and the residue count of every record with a hit
\* come from the residue rows of that record alone.
C34_YieldResetsTheAccumulators ==
    fmt = "num"
        => /\ parser.pc = "running"
                 => /\ parser.loc.sequence = ""
                    /\ parser.loc.annotation = <<>>
                    /\ parser.loc.feature_lst = <<>>
                    /\ parser.loc.residue_counter = 0
                    /\ parser.loc.state = STATE_HEADER
           /\ \A k \in HitPositions :
                  LET frag == FragmentOf(qresults[k])
                  IN  /\ IsSubsequence(frag.query.seq, RowResidues(file, k))
                      /\ Len(AnnotationsOf(qresults[k])) = Len(frag.query.seq)
                      /\ Len(FeaturesOf(qresults[k])) = Len(frag.query.seq) + 1
                      /\ frag.query_end = Len(frag.query.seq)

\* C34 witness: the parser has yielded the second of two records with a hit, each with
\* one residue
C34_Witness ==
    /\ fmt = "num"
    /\ parser.pc = "running"
    /\ Len(qresults) = 2
    /\ \A k \in 1..2 : HasHit(qresults[k]) /\ FragmentOf(qresults[k]).query_end = 1

\* C35: get_raw at an offset after which the file has no terminator line raises an
\* error: it does not return without a record (None) nor with a part of one.
C35_GetRawWithoutTerminatorFails ==
    retrieved /= NoObject
        => /\ ~retrieved.none
           /\ \E i \in DOMAIN file :
                  /\ Len(Concat(SubSeq(file, 1, i - 1))) >= retrieved.offset
                  /\ Slice(file[i], 1, 2) = "//"

\* C37: a get_raw call made between two steps of the scan of an indexer does not change
\* the entries that the scan yields: they are the entries of a scan of the same file
\* that no get_raw call comes in between.
C37_GetRawLeavesTheScanAlone ==
    LET RECURSIVE Scan(_, _)
        Scan(ixr, acc) ==
            IF ixr.pc \notin {"new", "running"} THEN acc
            ELSE LET next == CHOOSE n \in (IF fmt = "num" THEN NumIndexerNext(ixr, file)
                                                          ELSE HitsIndexerNext(ixr, file)) : TRUE
                 IN  Scan(next, acc \o next.out)
        alone == Scan(IF fmt = "num" THEN NumIndexerNew(file) ELSE HitsIndexerNew(file), <<>>)
    IN  (retrieved /= NoObject /\ retrieved.scan = "running" /\ scanned = <<>>)
            => /\ Len(entries) <= Len(alone)
               /\ \A k \in 1..Len(entries) : entries[k] = alone[k]
               /\ indexer.pc = "done" => Len(entries) = Len(alone)

\* C38: a second iteration over an indexer of either format, started after the first
\* has ended and with no get_raw call made on the indexer, yields the entries of the
\* first iteration in the same order.
C38_SecondScanYieldsTheSameEntries ==
    (scanned /= <<>> /\ retrieved = NoObject)
        => /\ Len(entries) <= Len(scanned[1])
           /\ \A k \in 1..Len(entries) : entries[k] = scanned[1][k]
           /\ indexer.pc = "done" => entries = scanned[1]

\* C39: the Annotations and the Summary of a numbered-format record are placed from one
\* query_start: the span of each Annotation starts where the span of the one before
\* ends, the first one and the Summary start at the query_start of the fragment, and the
\* hit has the id of the StatsMarker that its first residue row was read under, also
\* when a second StatsMarker follows residue rows of the record.
C39_OneQueryStartPerRecord ==
    \A k \in HitPositions :
        LET q == qresults[k]
            annots == AnnotationsOf(q)
            lines == RecordLines(file, k)
            first == CHOOSE i \in DOMAIN lines :
                         /\ IsResidueRow(lines[i]) /\ ~IsGapRow(lines[i])
                         /\ \A j \in 1..(i - 1) : ~IsResidueRow(lines[j]) \/ IsGapRow(lines[j])
            before == SelectSeq(SubSeq(lines, 1, first - 1), IsStatsMarker)
            bars == SplitOn(before[Len(before)], "|")
        IN  NonGapRows(file, k) /= <<>>
                => /\ \A j \in 2..Len(annots) :
                          annots[j].location[1] = annots[j - 1].location[2]
                   /\ annots /= <<>>
                          => /\ annots[1].location[1] = FragmentOf(q).query_start
                             /\ SummaryOf(q).location[1] = annots[1].location[1]
                   /\ before /= <<>> => q.hits[1].id = bars[2] \o "_" \o bars[3]

====
